---------------------------- MODULE Spec2Model ----------------------------
(***************************************************************************)
(* Model of the page-based cache of CacheServerDefrag                      *)
(* (src/cache_server_defrag.h, src/cache_server_defrag_impl1.cpp).         *)
(*                                                                         *)
(* The free list (a doubly linked list of FreeBlock nodes in the source)   *)
(* is a sequence of records; a FreeBlock* is an index into it, 0 is        *)
(* nullptr.  The program state between two cache operations is a record S  *)
(* that the operators below transform exactly as the member functions of   *)
(* the source transform the object's fields.                               *)
(*                                                                         *)
(* The second translation unit of the repository (addKey, updateKey,       *)
(* getKey, deleteKey, evict*, update*, writeToPages, readFromPages, the    *)
(* worker pool) is declared in the header only; those operators follow     *)
(* the documented behaviour of these declarations, with the constructor's  *)
(* default policy, EvictionPolicy::LRU.  The statistics counters            *)
(* (CacheStats) only count events and are left out.                        *)
(*                                                                         *)
(* Every cache operation runs from start to end with cache_mutex held, so  *)
(* the operations of the worker threads never overlap: one step of the     *)
(* machine is one whole operation of some worker, and a behaviour is a     *)
(* serialization order of the workers' operations.                         *)
(***************************************************************************)
EXTENDS Integers, Sequences, FiniteSets, TLC

(* The arena: TOTAL_PAGES pages of PAGE_SIZE bytes, scaled down. *)
TOTAL_PAGES == 10
PAGE_SIZE == 2

(* Cap on fifo_counter: the number of allocations in one behaviour. *)
MaxAllocs == 3

(* Number of distinct value contents a client may send. *)
MaxTag == 2

(* size_t is modelled 16 bits wide. *)
SIZE_MAX == (2 ^ 16) - 1

SizeT(x) == x % (SIZE_MAX + 1)

Keys == {"A", "B", "C"}
Clients == {"c1"}

(* Lengths, in bytes, of the values clients send: 0, 3, 4 and 6 pages. *)
DataSizes == {0, 2 * PAGE_SIZE + 1, 4 * PAGE_SIZE, 5 * PAGE_SIZE + 1}

(* The value of content `tag` and length `size`: byte k is tag * 100 + k. *)
Value(tag, size) == [k \in 1..size |-> tag * 100 + k]

Values == {Value(t, s) : t \in 1..MaxTag, s \in DataSizes}

Pages == 0..(TOTAL_PAGES - 1)

(* ------------------------------ sequences ------------------------------ *)

RemoveAt(s, i) == SubSeq(s, 1, i - 1) \o SubSeq(s, i + 1, Len(s))

InsertAt(s, i, x) == SubSeq(s, 1, i - 1) \o <<x>> \o SubSeq(s, i, Len(s))

RemoveKey(s, key) == SelectSeq(s, LAMBDA x : x # key)

FreeBlock(start, count) == [start_page |-> start, num_pages |-> count]

(* --------------------------- free list search --------------------------- *)

RECURSIVE BestFitScan(_, _, _, _, _)
BestFitScan(fl, num_pages, current, best_fit, best_size) ==
  IF current > Len(fl) THEN best_fit
  ELSE IF fl[current].num_pages >= num_pages /\ fl[current].num_pages < best_size
       THEN IF fl[current].num_pages = num_pages
            THEN current
            ELSE BestFitScan(fl, num_pages, current + 1, current,
                             fl[current].num_pages)
       ELSE BestFitScan(fl, num_pages, current + 1, best_fit, best_size)

(* The scan with <= for <: a later block of the same size replaces the
   earlier one. *)
RECURSIVE BestFitScan_LastTie(_, _, _, _, _)
BestFitScan_LastTie(fl, num_pages, current, best_fit, best_size) ==
  IF current > Len(fl) THEN best_fit
  ELSE IF fl[current].num_pages >= num_pages /\ fl[current].num_pages <= best_size
       THEN IF fl[current].num_pages = num_pages
            THEN current
            ELSE BestFitScan_LastTie(fl, num_pages, current + 1, current,
                                     fl[current].num_pages)
       ELSE BestFitScan_LastTie(fl, num_pages, current + 1, best_fit, best_size)

findBestFitBlock_LastTie(S, num_pages) ==
  BestFitScan_LastTie(S.free_list, num_pages, 1, 0, SIZE_MAX)

findBestFitBlock(S, num_pages) ==
  BestFitScan(S.free_list, num_pages, 1, 0, SIZE_MAX)

RECURSIVE FirstFitScan(_, _, _)
FirstFitScan(fl, num_pages, current) ==
  IF current > Len(fl) THEN 0
  ELSE IF fl[current].num_pages >= num_pages THEN current
       ELSE FirstFitScan(fl, num_pages, current + 1)

findFirstFitBlock(S, num_pages) == FirstFitScan(S.free_list, num_pages, 1)

(* ------------------------- free list maintenance ------------------------ *)

removeFromFreeList(S, block) ==
  [S EXCEPT !.free_list = RemoveAt(@, block),
            !.total_free_pages = SizeT(@ - S.free_list[block].num_pages)]

(* splitBlock that shrinks the block and forgets to move its start. *)
splitBlock_NoAdvance(S, block, num_pages) ==
  IF S.free_list[block].num_pages = num_pages
  THEN removeFromFreeList(S, block)
  ELSE [S EXCEPT !.free_list[block].num_pages = @ - num_pages]

(* splitBlock that empties an exactly fitting block and leaves it linked. *)
splitBlock_KeepExact(S, block, num_pages) ==
  [S EXCEPT !.free_list[block] =
     FreeBlock(@.start_page + num_pages, @.num_pages - num_pages)]

splitBlock(S, block, num_pages) ==
  IF S.free_list[block].num_pages = num_pages
  THEN removeFromFreeList(S, block)
  ELSE [S EXCEPT !.free_list[block] =
          FreeBlock(@.start_page + num_pages, @.num_pages - num_pages)]

MergeNext(fl, block) ==
  IF block < Len(fl)
     /\ fl[block].start_page + fl[block].num_pages = fl[block + 1].start_page
  THEN RemoveAt([fl EXCEPT ![block].num_pages = @ + fl[block + 1].num_pages],
                block + 1)
  ELSE fl

MergePrev(fl, block) ==
  IF block > 1
     /\ fl[block - 1].start_page + fl[block - 1].num_pages = fl[block].start_page
  THEN RemoveAt([fl EXCEPT ![block - 1].num_pages = @ + fl[block].num_pages],
                block)
  ELSE fl

(* coalesceAdjacentBlocks that tries the next block only. *)
coalesceAdjacentBlocks_NextOnly(S, block) ==
  [S EXCEPT !.free_list = MergeNext(@, block)]

coalesceAdjacentBlocks(S, block) ==
  [S EXCEPT !.free_list = MergePrev(MergeNext(@, block), block)]

RECURSIVE InsertionPoint(_, _, _)
InsertionPoint(fl, start_page, current) ==
  IF current < Len(fl) /\ fl[current + 1].start_page < start_page
  THEN InsertionPoint(fl, start_page, current + 1)
  ELSE current

(* Where the new block goes: the head, or after the last block that starts
   below start_page. *)
NewBlockIndex(fl, start_page) ==
  IF Len(fl) = 0 \/ start_page < fl[1].start_page
  THEN 1
  ELSE InsertionPoint(fl, start_page, 1) + 1

(* addToFreeList that links the block and forgets to count its pages. *)
InsertBlock_NoCount(S, new_block, start_page, num_pages) ==
  coalesceAdjacentBlocks(
    [S EXCEPT !.free_list = InsertAt(@, new_block,
                                     FreeBlock(start_page, num_pages))],
    new_block)

InsertBlock(S, new_block, start_page, num_pages) ==
  coalesceAdjacentBlocks(
    [S EXCEPT !.free_list = InsertAt(@, new_block,
                                     FreeBlock(start_page, num_pages)),
              !.total_free_pages = SizeT(@ + num_pages)],
    new_block)

addToFreeList(S, start_page, num_pages) ==
  InsertBlock(S, NewBlockIndex(S.free_list, start_page), start_page, num_pages)

(* ------------------------------ page arena ------------------------------ *)

calculateRequiredPages(data_size) ==
  (data_size + PAGE_SIZE - 1) \div PAGE_SIZE

(* Byte k of data goes to page start_page + (k-1) / PAGE_SIZE, at offset
   (k-1) % PAGE_SIZE; the rest of the last page keeps what it held. *)
writeToPages(S, start_page, data) ==
  [S EXCEPT !.cache =
     [p \in Pages |->
        IF p >= start_page /\ (p - start_page) * PAGE_SIZE < Len(data)
        THEN [S.cache[p] EXCEPT !.data =
                [o \in 1..PAGE_SIZE |->
                   IF (p - start_page) * PAGE_SIZE + o <= Len(data)
                   THEN data[(p - start_page) * PAGE_SIZE + o]
                   ELSE S.cache[p].data[o]]]
        ELSE S.cache[p]]]

readFromPages(S, start_page, data_size) ==
  [k \in 1..data_size |->
     S.cache[start_page + ((k - 1) \div PAGE_SIZE)].data[((k - 1) % PAGE_SIZE) + 1]]

(* Marking pages used without recording the start of their run. *)
MarkUsed_NoStart(cache, start_page, num_pages) ==
  [p \in Pages |->
     IF p >= start_page /\ p < start_page + num_pages
     THEN [cache[p] EXCEPT !.is_free = FALSE]
     ELSE cache[p]]

MarkUsed(cache, start_page, num_pages) ==
  [p \in Pages |->
     IF p >= start_page /\ p < start_page + num_pages
     THEN [cache[p] EXCEPT !.is_free = FALSE, !.block_start = start_page]
     ELSE cache[p]]

MarkFree(cache, start_page, num_pages) ==
  [p \in Pages |->
     IF p >= start_page /\ p < start_page + num_pages
     THEN [cache[p] EXCEPT !.is_free = TRUE]
     ELSE cache[p]]

(* ---------------------------- defragmentation --------------------------- *)

RECURSIVE LargestFrom(_, _, _)
LargestFrom(fl, current, largest) ==
  IF current > Len(fl) THEN largest
  ELSE LargestFrom(fl, current + 1,
                   IF fl[current].num_pages > largest
                   THEN fl[current].num_pages ELSE largest)

(* fragmentation_ratio is the double 1.0 - largest / total, kept as the
   fraction ratio_num / ratio_den; it is 0.0 when there is no free page. *)
FragmentationStats(total, largest, count) ==
  [total_free_pages |-> total,
   largest_free_block |-> largest,
   num_free_blocks |-> count,
   ratio_num |-> IF total > 0 THEN total - largest ELSE 0,
   ratio_den |-> IF total > 0 THEN total ELSE 1]

getFragmentationStats(S) ==
  FragmentationStats(S.total_free_pages, LargestFrom(S.free_list, 1, 0),
                     Len(S.free_list))

(* The orders std::sort may leave the entries in: ascending start_page,
   entries of equal start_page in any order. *)
RECURSIVE Perms(_)
Perms(ks) ==
  IF ks = {} THEN {<<>>}
  ELSE UNION {{<<k>> \o p : p \in Perms(ks \ {k})} : k \in ks}

SortedOrders(entries) ==
  {o \in Perms(DOMAIN entries) :
     \A i \in 1..(Len(o) - 1) :
        entries[o[i]].start_page <= entries[o[i + 1]].start_page}

(* One round of the relocation loop: move the bytes when the entry is not in
   place already, then mark its pages used. *)
(* The relocation that updates start_page and forgets to move the bytes. *)
PlaceEntry_NoCopy(S, key, entry, next_free_page) ==
  [S EXCEPT !.entries[key].start_page = next_free_page,
            !.cache = MarkUsed(@, next_free_page, entry.num_pages)]

(* The relocation that stamps the moved entry with a new insertion_order. *)
PlaceEntry_Rebuilt(S, key, entry, next_free_page) ==
  [(IF entry.start_page # next_free_page
    THEN [writeToPages(S, next_free_page,
                       readFromPages(S, entry.start_page, entry.data_size))
            EXCEPT !.entries[key] =
              [entry EXCEPT !.start_page = next_free_page,
                            !.insertion_order = S.fifo_counter]]
    ELSE S)
   EXCEPT !.cache = MarkUsed(@, next_free_page, entry.num_pages)]

PlaceEntry(S, key, entry, next_free_page) ==
  [(IF entry.start_page # next_free_page
    THEN [writeToPages(S, next_free_page,
                       readFromPages(S, entry.start_page, entry.data_size))
            EXCEPT !.entries[key].start_page = next_free_page]
    ELSE S)
   EXCEPT !.cache = MarkUsed(@, next_free_page, entry.num_pages)]

RECURSIVE CompactLoop(_, _, _, _)
CompactLoop(S, entries_to_move, i, next_free_page) ==
  IF i > Len(entries_to_move)
  THEN [st |-> S, next_free_page |-> next_free_page]
  ELSE CompactLoop(PlaceEntry(S, entries_to_move[i],
                              S.entries[entries_to_move[i]], next_free_page),
                   entries_to_move, i + 1,
                   next_free_page + S.entries[entries_to_move[i]].num_pages)

(* The free block at the end, with total_free_pages left at the 0 the rebuild
   of the list set it to. *)
TailBlock_NoCount(S, next_free_page) ==
  IF next_free_page < TOTAL_PAGES
  THEN [S EXCEPT
          !.cache = MarkFree(@, next_free_page, TOTAL_PAGES - next_free_page),
          !.free_list = <<FreeBlock(next_free_page,
                                    TOTAL_PAGES - next_free_page)>>]
  ELSE S

(* The one free block at the end, when a page is left. *)
TailBlock(S, next_free_page) ==
  IF next_free_page < TOTAL_PAGES
  THEN [S EXCEPT
          !.cache = MarkFree(@, next_free_page, TOTAL_PAGES - next_free_page),
          !.free_list = <<FreeBlock(next_free_page,
                                    TOTAL_PAGES - next_free_page)>>,
          !.total_free_pages = TOTAL_PAGES - next_free_page]
  ELSE S

Compacted(R) == TailBlock(R.st, R.next_free_page)

compactMemory(S, entries_to_move) ==
  Compacted(CompactLoop([S EXCEPT !.free_list = <<>>, !.total_free_pages = 0],
                        entries_to_move, 1, 0))

Defragmented(S, required_pages) ==
  [st |-> S,
   ok |-> getFragmentationStats(S).largest_free_block >= required_pages]

defragment(S, required_pages, entries_to_move) ==
  Defragmented(compactMemory(S, entries_to_move), required_pages)

(* ------------------------------- freePages ------------------------------ *)

(* freePages that returns the run to the free list and leaves the pages
   flagged used. *)
FreeRun_NoMark(S, start_page, num_pages) ==
  addToFreeList(S, start_page, num_pages)

FreeRun(S, start_page, num_pages) ==
  addToFreeList([S EXCEPT !.cache = MarkFree(@, start_page, num_pages)],
                start_page, num_pages)

(* freePages that looks the key up with operator[], which creates an empty
   entry for a key that is not there. *)
freePages_Unchecked(S, key) ==
  IF key \notin DOMAIN S.entries
  THEN FreeRun([S EXCEPT !.entries = (key :> [key |-> "", client_id |-> "",
                   start_page |-> 0, num_pages |-> 0, data_size |-> 0,
                   insertion_order |-> 0, visited |-> FALSE,
                   reference_bit |-> FALSE, clock_position |-> 0]) @@ @], 0, 0)
  ELSE FreeRun(S, S.entries[key].start_page, S.entries[key].num_pages)

freePages(S, key) ==
  IF key \notin DOMAIN S.entries THEN S
  ELSE FreeRun(S, S.entries[key].start_page, S.entries[key].num_pages)

EraseEntry(entries, key) == [k \in (DOMAIN entries) \ {key} |-> entries[k]]

(* ------------------------------- eviction ------------------------------- *)

(* lru_list holds the most recently used key first; the victim is the last. *)
EvictVictim(S, victim) ==
  [freePages(S, victim) EXCEPT !.entries = EraseEntry(@, victim),
                               !.lru_list = RemoveKey(@, victim)]

RECURSIVE evictLRU(_, _, _)
evictLRU(S, required_pages, evicted) ==
  IF S.total_free_pages >= required_pages
  THEN [st |-> S, ok |-> TRUE, evicted |-> evicted]
  ELSE IF S.lru_list = <<>>
       THEN [st |-> S, ok |-> FALSE, evicted |-> evicted]
       ELSE evictLRU(EvictVictim(S, S.lru_list[Len(S.lru_list)]),
                     required_pages,
                     Append(evicted, S.lru_list[Len(S.lru_list)]))

(* evict that stops after one victim and reports success. *)
evict_OneVictim(S, required_pages) ==
  IF S.total_free_pages >= required_pages
  THEN [st |-> S, ok |-> TRUE, evicted |-> <<>>]
  ELSE IF S.lru_list = <<>>
       THEN [st |-> S, ok |-> FALSE, evicted |-> <<>>]
       ELSE [st |-> EvictVictim(S, S.lru_list[Len(S.lru_list)]), ok |-> TRUE,
             evicted |-> <<S.lru_list[Len(S.lru_list)]>>]

evict(S, required_pages) == evictLRU(S, required_pages, <<>>)

(* updateLRU that moves the key to the victim's end of the list. *)
updateLRU_ToBack(S, key) ==
  [S EXCEPT !.lru_list = RemoveKey(@, key) \o <<key>>]

updateLRU(S, key) ==
  [S EXCEPT !.lru_list = <<key>> \o RemoveKey(@, key)]

updatePolicy(S, key) == updateLRU(S, key)

(* ----------------------------- allocatePages ---------------------------- *)

NewEntry(key, client_id, start_page, num_pages, data_size, insertion_order) ==
  [key |-> key, client_id |-> client_id, start_page |-> start_page,
   num_pages |-> num_pages, data_size |-> data_size,
   insertion_order |-> insertion_order, visited |-> FALSE,
   reference_bit |-> FALSE, clock_position |-> 0]

(* What an allocation did on its way: whether defragment and evict ran, what
   they returned, and the keys evict removed, in order. *)
Path(defrag_called, defrag_ok, evict_called, evict_ok, evicted) ==
  [defrag_called |-> defrag_called, defrag_ok |-> defrag_ok,
   evict_called |-> evict_called, evict_ok |-> evict_ok, evicted |-> evicted]

Direct == Path(FALSE, FALSE, FALSE, FALSE, <<>>)

AllocResult(S, ok, required_pages, start_page, path) ==
  [st |-> S, ok |-> ok, required_pages |-> required_pages,
   start_page |-> start_page, path |-> path]

(* Split the block, mark the pages used, create the entry. *)
CommitPages(S, block, key, data_size, client_id, required_pages, start_page) ==
  [splitBlock(S, block, required_pages) EXCEPT
     !.cache = MarkUsed(@, start_page, required_pages),
     !.entries = (key :> NewEntry(key, client_id, start_page, required_pages,
                                  data_size, S.fifo_counter)) @@ @,
     !.fifo_counter = @ + 1]

AllocateFrom(S, block, key, data_size, client_id, required_pages, path) ==
  IF block = 0
  THEN AllocResult(S, FALSE, required_pages, 0, path)
  ELSE AllocResult(CommitPages(S, block, key, data_size, client_id,
                               required_pages, S.free_list[block].start_page),
                   TRUE, required_pages, S.free_list[block].start_page, path)

AfterEvict(E, key, data_size, client_id, required_pages, defrag_called) ==
  IF ~E.ok
  THEN AllocResult(E.st, FALSE, required_pages, 0,
                   Path(defrag_called, FALSE, TRUE, FALSE, E.evicted))
  ELSE AllocateFrom(E.st, findBestFitBlock(E.st, required_pages), key,
                    data_size, client_id, required_pages,
                    Path(defrag_called, FALSE, TRUE, TRUE, E.evicted))

AfterDefragment(D, key, data_size, client_id, required_pages) ==
  IF ~D.ok
  THEN AfterEvict(evict(D.st, required_pages), key, data_size, client_id,
                  required_pages, TRUE)
  ELSE AllocateFrom(D.st, findBestFitBlock(D.st, required_pages), key,
                    data_size, client_id, required_pages,
                    Path(TRUE, TRUE, FALSE, FALSE, <<>>))

(* The admission path that evicts as soon as no block fits. *)
AfterBestFit_EvictFirst(S, block, key, data_size, client_id, required_pages, entries_to_move) ==
  IF block # 0
  THEN AllocateFrom(S, block, key, data_size, client_id, required_pages, Direct)
  ELSE AfterEvict(evict(S, required_pages), key, data_size, client_id,
                  required_pages, FALSE)

AfterBestFit(S, block, key, data_size, client_id, required_pages, entries_to_move) ==
  IF block # 0
  THEN AllocateFrom(S, block, key, data_size, client_id, required_pages, Direct)
  ELSE IF S.total_free_pages >= required_pages
       THEN AfterDefragment(defragment(S, required_pages, entries_to_move),
                            key, data_size, client_id, required_pages)
       ELSE AfterEvict(evict(S, required_pages), key, data_size, client_id,
                       required_pages, FALSE)

RequirePages(S, key, data_size, client_id, required_pages, entries_to_move) ==
  AfterBestFit(S, findBestFitBlock(S, required_pages), key, data_size,
               client_id, required_pages, entries_to_move)

allocatePages(S, key, data_size, client_id, entries_to_move) ==
  RequirePages(S, key, data_size, client_id, calculateRequiredPages(data_size),
               entries_to_move)

(* --------------------------- cache operations --------------------------- *)

NoAlloc == [ok |-> FALSE, required_pages |-> 0, start_page |-> 0, path |-> Direct]

AllocInfo(A) ==
  [ok |-> A.ok, required_pages |-> A.required_pages,
   start_page |-> A.start_page, path |-> A.path]

Reply(S, result, value, alloc) ==
  [st |-> S, result |-> result, value |-> value, alloc |-> alloc]

(* After allocatePages: write the bytes, register the key in the policy index. *)
Stored(A, key, value) ==
  IF A.ok
  THEN Reply(updatePolicy(writeToPages(A.st, A.start_page, value), key),
             "Ok", <<>>, AllocInfo(A))
  ELSE Reply(A.st, "OutOfCapacity", <<>>, AllocInfo(A))

StoreValue(S, key, value, client_id, entries_to_move) ==
  Stored(allocatePages(S, key, Len(value), client_id, entries_to_move),
         key, value)

addKey(S, key, value, client_id, entries_to_move) ==
  IF key \in DOMAIN S.entries
  THEN Reply(S, "KeyExists", <<>>, NoAlloc)
  ELSE StoreValue(S, key, value, client_id, entries_to_move)

(* Free the old pages, drop the old entry, then admit the new value. *)
DropEntry(S, key) ==
  [freePages(S, key) EXCEPT !.entries = EraseEntry(@, key),
                            !.lru_list = RemoveKey(@, key)]

updateKey(S, key, value, client_id, entries_to_move) ==
  IF key \notin DOMAIN S.entries
  THEN Reply(S, "NotFound", <<>>, NoAlloc)
  ELSE StoreValue(DropEntry(S, key), key, value, client_id, entries_to_move)

getKey(S, key) ==
  IF key \notin DOMAIN S.entries
  THEN Reply(S, "NotFound", <<>>, NoAlloc)
  ELSE Reply(updatePolicy(S, key), "Ok",
             readFromPages(S, S.entries[key].start_page,
                           S.entries[key].data_size),
             NoAlloc)

deleteKey(S, key) ==
  IF key \notin DOMAIN S.entries
  THEN Reply(S, "NotFound", <<>>, NoAlloc)
  ELSE Reply(DropEntry(S, key), "Ok", <<>>, NoAlloc)

(* ------------------------------ the machine ----------------------------- *)

VARIABLES
  cache,            \* std::vector<Page>: page -> [is_free, block_start, data]
  entries,          \* std::unordered_map<std::string, CacheEntry>
  free_list,        \* the list that starts at free_list_head
  total_free_pages,
  lru_list,         \* most recently used key first
  fifo_counter,
  stored,           \* history: key -> the value its last add/update wrote
  recency,          \* history: live keys, least recently used first
  last,             \* history: the last cache operation and what it returned
  script            \* the scripted scenario being run, and the position in it

vars == <<cache, entries, free_list, total_free_pages, lru_list, fifo_counter,
          stored, recency, last, script>>

State ==
  [cache |-> cache, entries |-> entries, free_list |-> free_list,
   total_free_pages |-> total_free_pages, lru_list |-> lru_list,
   fifo_counter |-> fifo_counter]

Restrict(f, ks) == [k \in (DOMAIN f) \cap ks |-> f[k]]

NoOp == [op |-> "none", key |-> "", result |-> "", alloc |-> NoAlloc]

(* Scripted workloads on four keys, longer than the free workload's cap
   allows.  A script is a sequence of operations; pages is how many pages the
   value of an add takes. *)
ScriptKeys == {"A", "B", "C", "D"}

Op(op, key, pages) == [op |-> op, key |-> key, pages |-> pages]

(* Add a (4 pages), b (3), c (3); delete a, delete c; request 6 pages for d. *)
DefragOps(a, b, c, d) ==
  <<Op("add", a, 4), Op("add", b, 3), Op("add", c, 3),
    Op("delete", a, 0), Op("delete", c, 0), Op("add", d, 6)>>

(* Fill the cache with a, b, c; get K1 then K2; add d. *)
LruOps(a, b, c, K1, K2, d) ==
  <<Op("add", a, 3), Op("add", b, 4), Op("add", c, 3),
    Op("get", K1, 0), Op("get", K2, 0), Op("add", d, 3)>>

(* Add a (3 pages), b (4); then a request no arena can hold. *)
OverflowOps(a, b, d) ==
  <<Op("add", a, 3), Op("add", b, 4), Op("add", d, 2 * TOTAL_PAGES)>>

OverflowScripts ==
  {OverflowOps(o[1], o[2], o[3]) : o \in Perms(ScriptKeys)}

DefragScripts ==
  {DefragOps(o[1], o[2], o[3], o[4]) : o \in Perms(ScriptKeys)}

LruScripts ==
  UNION {{LruOps(o[1], o[2], o[3], o[t[1]], o[t[2]], o[4]) :
            t \in {u \in (1..3) \X (1..3) : u[1] # u[2]}} :
         o \in Perms(ScriptKeys)}

NoScript == [step |-> 0, ops |-> <<>>]

(* A value of `pages` pages whose last page is not full. *)
ScriptValue(pages) == Value(1, (pages - 1) * PAGE_SIZE + 1)

(* initializeCache: every page free, one free block spanning the arena.  The
   bytes of a fresh page are indeterminate; no operation reads a byte it has
   not written, so they are shown as 0. *)
initializeCache ==
  /\ cache = [p \in Pages |->
                [is_free |-> TRUE, block_start |-> 0,
                 data |-> [o \in 1..PAGE_SIZE |-> 0]]]
  /\ free_list = <<FreeBlock(0, TOTAL_PAGES)>>
  /\ total_free_pages = TOTAL_PAGES

Fresh ==
  /\ initializeCache
  /\ entries = <<>>
  /\ lru_list = <<>>
  /\ fifo_counter = 0
  /\ stored = <<>>
  /\ recency = <<>>
  /\ last = NoOp

Init ==
  /\ Fresh
  /\ script \in {NoScript}
                \cup {[step |-> 0, ops |-> o] :
                        o \in DefragScripts \cup LruScripts \cup OverflowScripts}

Touched(live, key, hit) ==
  IF hit THEN RemoveKey(live, key) \o <<key>> ELSE live

(* One cache operation, from state S to R.st, and the history it leaves. *)
Finish(op, key, sent, R) ==
  /\ cache' = R.st.cache
  /\ entries' = R.st.entries
  /\ free_list' = R.st.free_list
  /\ total_free_pages' = R.st.total_free_pages
  /\ lru_list' = R.st.lru_list
  /\ fifo_counter' = R.st.fifo_counter
  /\ stored' = IF op \in {"add", "update"} /\ R.result = "Ok"
               THEN (key :> sent) @@ Restrict(stored, DOMAIN R.st.entries)
               ELSE Restrict(stored, DOMAIN R.st.entries)
  /\ recency' = Touched(SelectSeq(recency,
                                   LAMBDA k : k \in DOMAIN R.st.entries),
                         key, op \in {"add", "update", "get"} /\ R.result = "Ok")
  /\ last' = [op |-> op, key |-> key, result |-> R.result, alloc |-> R.alloc]

DoAdd(key, value, client_id) ==
  \E order \in SortedOrders(entries) :
     Finish("add", key, value, addKey(State, key, value, client_id, order))

DoUpdate(key, value, client_id) ==
  \E order \in SortedOrders(EraseEntry(entries, key)) :
     Finish("update", key, value, updateKey(State, key, value, client_id, order))

DoGet(key) == Finish("get", key, <<>>, getKey(State, key))

DoDelete(key) == Finish("delete", key, <<>>, deleteKey(State, key))

Add ==
  /\ script = NoScript
  /\ fifo_counter < MaxAllocs
  /\ \E key \in Keys, value \in Values, client_id \in Clients :
        DoAdd(key, value, client_id)
  /\ UNCHANGED script

Update ==
  /\ script = NoScript
  /\ fifo_counter < MaxAllocs
  /\ \E key \in Keys, value \in Values, client_id \in Clients :
        DoUpdate(key, value, client_id)
  /\ UNCHANGED script

Get ==
  /\ script = NoScript
  /\ \E key \in Keys : DoGet(key)
  /\ UNCHANGED script

Delete ==
  /\ script = NoScript
  /\ \E key \in Keys : DoDelete(key)
  /\ UNCHANGED script

(* The next operation of the script. *)
ScriptStep ==
  /\ script.step < Len(script.ops)
  /\ LET c == script.ops[script.step + 1]
     IN \/ c.op = "add" /\ \E client_id \in Clients :
                               DoAdd(c.key, ScriptValue(c.pages), client_id)
        \/ c.op = "get" /\ DoGet(c.key)
        \/ c.op = "delete" /\ DoDelete(c.key)
  /\ script' = [script EXCEPT !.step = @ + 1]

Next == Add \/ Update \/ Get \/ Delete \/ ScriptStep

Spec == Init /\ [][Next]_vars

(* ----------------------- the free list on its own ----------------------- *)

(* The free-list functions applied once to every sorted, coalesced free list
   of the arena: a set of free pages is the list of its maximal runs, and
   every maximal run of used pages is a live entry. *)
InExtentOf(p, b) == b.start_page <= p /\ p < b.start_page + b.num_pages

RunEnd(pages, p) ==
  CHOOSE q \in (p + 1)..TOTAL_PAGES :
     /\ q = TOTAL_PAGES \/ q \notin pages
     /\ \A r \in p..(q - 1) : r \in pages

RECURSIVE RunsFrom(_, _)
RunsFrom(pages, p) ==
  IF p >= TOTAL_PAGES THEN <<>>
  ELSE IF p \notin pages THEN RunsFrom(pages, p + 1)
       ELSE <<FreeBlock(p, RunEnd(pages, p) - p)>>
              \o RunsFrom(pages, RunEnd(pages, p))

RunKeys == <<"A", "B", "C", "D", "E", "F", "G", "H">>

EntriesOf(runs) ==
  [k \in {RunKeys[i] : i \in 1..Len(runs)} |->
     NewEntry(k, "c1",
              runs[CHOOSE i \in 1..Len(runs) : RunKeys[i] = k].start_page,
              runs[CHOOSE i \in 1..Len(runs) : RunKeys[i] = k].num_pages,
              runs[CHOOSE i \in 1..Len(runs) : RunKeys[i] = k].num_pages
                * PAGE_SIZE,
              (CHOOSE i \in 1..Len(runs) : RunKeys[i] = k) - 1)]

Arena(free, used) ==
  /\ cache = [p \in Pages |->
                [is_free |-> p \in free,
                 block_start |->
                   IF p \in free THEN 0
                   ELSE used[CHOOSE i \in 1..Len(used) :
                                InExtentOf(p, used[i])].start_page,
                 data |-> [o \in 1..PAGE_SIZE |-> 0]]]
  /\ free_list = RunsFrom(free, 0)
  /\ total_free_pages = Cardinality(free)
  /\ entries = EntriesOf(used)
  /\ lru_list = [i \in 1..Len(used) |-> RunKeys[Len(used) + 1 - i]]
  /\ fifo_counter = Len(used)
  /\ stored = [k \in {RunKeys[i] : i \in 1..Len(used)} |->
                 [b \in 1..(EntriesOf(used)[k].data_size) |-> 0]]
  /\ recency = [i \in 1..Len(used) |-> RunKeys[i]]

FreeListInit ==
  /\ \E free \in SUBSET Pages : Arena(free, RunsFrom(Pages \ free, 0))
  /\ last = NoOp
  /\ script = NoScript

ApplyFindBestFit ==
  /\ last.op = "none"
  /\ \E num_pages \in 1..TOTAL_PAGES :
        last' = [op |-> "findBestFitBlock", num_pages |-> num_pages,
                 block |-> findBestFitBlock(State, num_pages),
                 before |-> free_list]
  /\ UNCHANGED <<cache, entries, free_list, total_free_pages, lru_list,
                 fifo_counter, stored, recency, script>>

ApplySplitBlock ==
  /\ last.op = "none"
  /\ \E block \in 1..Len(free_list) :
        \E num_pages \in 0..free_list[block].num_pages :
           /\ free_list' = splitBlock(State, block, num_pages).free_list
           /\ total_free_pages'
                = splitBlock(State, block, num_pages).total_free_pages
           /\ last' = [op |-> "splitBlock", num_pages |-> num_pages,
                       block |-> block, before |-> free_list]
  /\ UNCHANGED <<cache, entries, lru_list, fifo_counter, stored, recency,
                 script>>

(* A run of used pages goes back to the free list. *)
ApplyAddToFreeList ==
  /\ last.op = "none"
  /\ \E start_page \in Pages :
        \E num_pages \in 1..(TOTAL_PAGES - start_page) :
           /\ \A p \in start_page..(start_page + num_pages - 1) :
                 ~cache[p].is_free
           /\ free_list' = addToFreeList(State, start_page, num_pages).free_list
           /\ total_free_pages'
                = addToFreeList(State, start_page, num_pages).total_free_pages
           /\ last' = [op |-> "addToFreeList", num_pages |-> num_pages,
                       start_page |-> start_page, before |-> free_list]
  /\ UNCHANGED <<cache, entries, lru_list, fifo_counter, stored, recency,
                 script>>

FreeListNext == ApplyFindBestFit \/ ApplySplitBlock \/ ApplyAddToFreeList

FreeListSpec == FreeListInit /\ [][FreeListNext]_vars

(* ------------------------------ properties ------------------------------ *)

RECURSIVE SumLen(_, _)
SumLen(fl, i) == IF i > Len(fl) THEN 0 ELSE fl[i].num_pages + SumLen(fl, i + 1)

RECURSIVE SumPages(_, _)
SumPages(es, ks) ==
  IF ks = {} THEN 0
  ELSE LET k == CHOOSE x \in ks : TRUE
       IN es[k].num_pages + SumPages(es, ks \ {k})

FreeSum == SumLen(free_list, 1)

LiveSum == SumPages(entries, DOMAIN entries)

InExtent(i, b) == b.start_page <= i /\ i < b.start_page + b.num_pages

AllKeys == Keys \cup ScriptKeys

(* C1 (P1 accounting): in every state the counter total_free_pages plus the
   pages of the live entries is TOTAL_PAGES, and the counter is the sum of
   the lengths of the free extents. *)
C1_Accounting ==
  /\ total_free_pages + LiveSum = TOTAL_PAGES
  /\ total_free_pages = FreeSum

(* C2 (P2/P3 sorted and coalesced): consecutive free extents a, b always
   satisfy a.start + a.len < b.start. *)
C2_SortedCoalesced ==
  \A i \in 1..(Len(free_list) - 1) :
     free_list[i].start_page + free_list[i].num_pages
       < free_list[i + 1].start_page

(* C3 (P4 page flags): a page is flagged free exactly when it lies in some
   extent of the free list. *)
C3_PageFlags ==
  \A i \in Pages :
     cache[i].is_free <=> \E b \in 1..Len(free_list) : InExtent(i, free_list[b])

(* A delete has just returned pages to a free list that is now in pieces
   around a live entry. *)
C3_Witness ==
  /\ last.op = "delete" /\ last.result = "Ok"
  /\ Len(free_list) >= 2
  /\ \E k \in DOMAIN entries : entries[k].num_pages > 0

(* The bytes a get of key k reads in state S. *)
ValueAt(S, k) ==
  readFromPages(S, S.entries[k].start_page, S.entries[k].data_size)

(* defragment(n) is due: n pages are counted free and no extent holds them. *)
Fragmented(n) ==
  total_free_pages >= n /\ findBestFitBlock(State, n) = 0

(* State S1 holds the live keys of the current state, each with the value
   it has now, which is the value last written for it. *)
SameValues(S1) ==
  /\ DOMAIN S1.entries = DOMAIN entries
  /\ \A k \in DOMAIN entries :
        ValueAt(S1, k) = ValueAt(State, k) /\ ValueAt(S1, k) = stored[k]

(* C4 (P8 compaction preserves semantics): whenever total_free_pages >= n and
   no free extent has n pages, defragment(n) leaves the set of live keys as
   it was, and reading data_size bytes at each entry's start_page afterwards
   yields the value the key held before. *)
C4_CompactionPreserves ==
  \A n \in 1..TOTAL_PAGES :
     Fragmented(n) =>
       \A order \in SortedOrders(entries) :
          SameValues(defragment(State, n, order).st)

(* defragment is due and relocates an entry that holds bytes; or it has just
   run within an allocation that left an older entry live. *)
C4_Witness ==
  \/ \E n \in 1..TOTAL_PAGES :
        /\ Fragmented(n)
        /\ \E order \in SortedOrders(entries), k \in DOMAIN entries :
              /\ entries[k].data_size > 0
              /\ defragment(State, n, order).st.entries[k].start_page
                   # entries[k].start_page
  \/ /\ last.alloc.path.defrag_called /\ last.result = "Ok"
     /\ \E k \in DOMAIN entries : k # last.key /\ entries[k].data_size > 0

(* C5 (per-key linearizability, P6 round trip): in every state of every
   serialization order, a get of k hits exactly when k was added and not
   deleted or evicted since, and then returns the value of the latest
   add/update of k; right after a successful add(k, v) that is v. *)
C5_GetReturnsLatest ==
  /\ DOMAIN stored = DOMAIN entries
  /\ \A k \in AllKeys :
        IF k \in DOMAIN stored
        THEN getKey(State, k).result = "Ok" /\ getKey(State, k).value = stored[k]
        ELSE getKey(State, k).result = "NotFound"
  /\ (last.op \in {"add", "update"} /\ last.result = "Ok")
       => last.key \in DOMAIN entries

(* A write that had to compact or evict has just succeeded next to another
   live key that holds bytes. *)
C5_Witness ==
  /\ last.op \in {"add", "update"} /\ last.result = "Ok"
  /\ last.alloc.path.defrag_called \/ last.alloc.path.evict_called
  /\ stored[last.key] # <<>>
  /\ \E k \in DOMAIN entries : k # last.key /\ stored[k] # <<>>

(* C6 (P7 idempotent delete): from every state, delete(k); delete(k) returns
   NotFound the second time and the second call changes nothing; freePages
   of a key that is not in the entry table is a no-op. *)
C6_IdempotentDelete ==
  \A k \in AllKeys :
     /\ deleteKey(deleteKey(State, k).st, k).result = "NotFound"
     /\ deleteKey(deleteKey(State, k).st, k).st = deleteKey(State, k).st
     /\ freePages(deleteKey(State, k).st, k) = deleteKey(State, k).st
     /\ k \notin DOMAIN entries => freePages(State, k) = State

(* A delete of a live key has just run: the state the second delete meets. *)
C6_Witness ==
  /\ last.op = "delete" /\ last.result = "Ok"
  /\ last.key \notin DOMAIN entries
  /\ entries # <<>>

DefragScript == \E o \in DefragScripts : script.ops = o

LruScript == \E o \in LruScripts : script.ops = o

(* In the defragment scenario: the keys a, b, c, d of the script. *)
RoleKey(i) == script.ops[IF i = 4 THEN 6 ELSE i].key

(* B has been relocated to [0,3) and [3, TOTAL_PAGES) is the one free extent. *)
DefragmentedLayout(S, b) ==
  /\ S.entries[b].start_page = 0 /\ S.entries[b].num_pages = 3
  /\ S.free_list = <<FreeBlock(3, TOTAL_PAGES - 3)>>
  /\ DOMAIN S.entries = {b}

(* The scenario with the counter left out: the layout after the two
   deletes, what defragment does to it, and what the request for 6 pages
   does. *)
ScenarioLayout ==
  /\ (DefragScript /\ script.step = 5) =>
        /\ free_list = <<FreeBlock(0, 4), FreeBlock(7, TOTAL_PAGES - 7)>>
        /\ entries[RoleKey(2)].start_page = 4
        /\ findBestFitBlock(State, 6) = 0
        /\ \A order \in SortedOrders(entries) :
              DefragmentedLayout(defragment(State, 6, order).st, RoleKey(2))
  /\ (DefragScript /\ script.step = 6) =>
        /\ last.result = "Ok"
        /\ last.alloc.path.defrag_called /\ last.alloc.path.defrag_ok
        /\ ~last.alloc.path.evict_called /\ last.alloc.path.evicted = <<>>
        /\ entries[RoleKey(2)].start_page = 0
        /\ entries[RoleKey(4)].start_page = 3
        /\ entries[RoleKey(4)].num_pages = 6

(* C7 (defragment-trigger scenario): after add A (4 pages), add B (3), add C
   (3), delete A, delete C the free list is [(0,4),(7,3)] and
   total_free_pages is 7; the request for 6 pages then finds no fitting
   extent, defragment relocates B from [4,7) to [0,3) and leaves the free
   list [(3,7)], nothing is evicted and the allocation succeeds at [3,9). *)
C7_DefragScenario ==
  /\ ScenarioLayout
  /\ (DefragScript /\ script.step = 5) => total_free_pages = TOTAL_PAGES - 3

(* C8 (OutOfCapacity only on exhaustion): whenever evict reported success in
   an allocation, the retried best fit found an extent and the allocation
   committed. *)
C8_EvictThenCommit ==
  last.alloc.path.evict_ok => (last.alloc.ok /\ last.result = "Ok")

(* C9 (fragmentation ratio bounds): fragmentation_stats always reports
   largest_free_block <= total_free_pages, largest_free_block = 0 when
   total_free_pages = 0, hence a ratio in [0,1]; and no extent that can be
   removed is longer than the counter, so removing it never wraps. *)
C9_RatioBounds ==
  /\ getFragmentationStats(State).largest_free_block
       <= getFragmentationStats(State).total_free_pages
  /\ getFragmentationStats(State).total_free_pages = 0
       => getFragmentationStats(State).largest_free_block = 0
  /\ 0 <= getFragmentationStats(State).ratio_num
  /\ getFragmentationStats(State).ratio_num
       <= getFragmentationStats(State).ratio_den
  /\ \A b \in 1..Len(free_list) :
        /\ free_list[b].num_pages <= total_free_pages
        /\ removeFromFreeList(State, b).total_free_pages
             = total_free_pages - free_list[b].num_pages

(* An exact fit has just removed the last extent from the free list, after
   earlier frees had put extents back. *)
C9_Witness ==
  /\ last.op \in {"add", "update"} /\ last.result = "Ok"
  /\ free_list = <<>>
  /\ fifo_counter >= 2

(* C10 (LRU victim selection): the keys an add or update evicts are, in the
   order of their eviction, the least recently used live keys at that
   moment, where add, get-hit and update make a key the most recent one; so
   after get(K1), get(K2) on a full cache, an add that evicts one key evicts
   neither K1 nor K2. *)
C10_LruVictims ==
  [][/\ last'.alloc.path.evicted
          = SubSeq(RemoveKey(recency, last'.key), 1,
                   Len(last'.alloc.path.evicted))
     /\ (LruScript /\ script.step = 5 /\ script'.step = 6) =>
           /\ Len(last'.alloc.path.evicted) = 1
           /\ last'.alloc.path.evicted[1] \notin {script.ops[4].key,
                                                  script.ops[5].key}
           /\ {script.ops[4].key, script.ops[5].key} \subseteq DOMAIN entries'
    ]_vars

(* The add that ends the LRU scenario has just evicted one key. *)
C10_Witness ==
  /\ LruScript /\ script.step = 6
  /\ last.op = "add" /\ last.result = "Ok"
  /\ Len(last.alloc.path.evicted) = 1


(* ------------------------ claims on the free list ----------------------- *)

(* C11 (best fit): findBestFitBlock(n), n >= 1, returns no block exactly when
   no extent has n pages; otherwise it returns the extent of the least
   length among those with at least n pages, the earliest of them in list
   order; [(0,2),(3,5),(9,1)] with n = 2 gives the extent that starts at 0. *)
C11_BestFit ==
  last.op = "findBestFitBlock" =>
    /\ last.block = 0
         <=> ~\E i \in 1..Len(last.before) :
                 last.before[i].num_pages >= last.num_pages
    /\ last.block # 0 =>
         /\ last.block \in 1..Len(last.before)
         /\ last.before[last.block].num_pages >= last.num_pages
         /\ \A i \in 1..Len(last.before) :
               last.before[i].num_pages >= last.num_pages =>
                 \/ last.before[last.block].num_pages
                      < last.before[i].num_pages
                 \/ /\ last.before[last.block].num_pages
                         = last.before[i].num_pages
                    /\ last.block <= i
    /\ (last.before = <<FreeBlock(0, 2), FreeBlock(3, 5), FreeBlock(9, 1)>>
          /\ last.num_pages = 2)
         => last.block = 1 /\ last.before[last.block].start_page = 0

(* The scan has passed over a larger extent, kept the first of two extents
   of the same length, and no extent was an exact fit. *)
C11_Witness ==
  /\ last.op = "findBestFitBlock" /\ last.block > 1
  /\ \E i \in (last.block + 1)..Len(last.before) :
        last.before[i].num_pages = last.before[last.block].num_pages
  /\ last.before[last.block].num_pages > last.num_pages
  /\ last.before[1].num_pages > last.before[last.block].num_pages

(* C12 (split): splitBlock(block, n) on a block of at least n pages unlinks
   the block when it has exactly n pages and otherwise turns it into
   (start + n, len - n) at its place; every other extent keeps its start,
   its length and its place, and the list stays sorted.  A request for 3
   pages on [(0, TOTAL_PAGES)] gives the entry [0,3) and the free list
   [(3, TOTAL_PAGES - 3)]. *)
C12_SplitFrame ==
  /\ last.op = "splitBlock" =>
       /\ IF last.before[last.block].num_pages = last.num_pages
          THEN /\ Len(free_list) = Len(last.before) - 1
               /\ \A i \in 1..Len(free_list) :
                     free_list[i]
                       = last.before[IF i < last.block THEN i ELSE i + 1]
          ELSE /\ Len(free_list) = Len(last.before)
               /\ free_list[last.block]
                    = FreeBlock(last.before[last.block].start_page
                                  + last.num_pages,
                                last.before[last.block].num_pages
                                  - last.num_pages)
               /\ \A i \in 1..Len(free_list) :
                     i # last.block => free_list[i] = last.before[i]
       /\ \A i \in 1..(Len(free_list) - 1) :
             free_list[i].start_page + free_list[i].num_pages
               < free_list[i + 1].start_page
  /\ (last.op = "none" /\ free_list = <<FreeBlock(0, TOTAL_PAGES)>>) =>
       /\ allocatePages(State, "A", 2 * PAGE_SIZE + 1, "c1", <<>>).ok
       /\ allocatePages(State, "A", 2 * PAGE_SIZE + 1, "c1",
                        <<>>).st.entries["A"].start_page = 0
       /\ allocatePages(State, "A", 2 * PAGE_SIZE + 1, "c1",
                        <<>>).st.entries["A"].num_pages = 3
       /\ allocatePages(State, "A", 2 * PAGE_SIZE + 1, "c1",
                        <<>>).st.free_list = <<FreeBlock(3, TOTAL_PAGES - 3)>>

(* A block between two others has just been split in place. *)
C12_Witness ==
  /\ last.op = "splitBlock"
  /\ 1 < last.block /\ last.block < Len(last.before)
  /\ 0 < last.num_pages
  /\ last.num_pages < last.before[last.block].num_pages
  /\ Len(free_list) = Len(last.before)

(* The pages the extents of a free list cover. *)
Covered(fl) == {p \in Pages : \E i \in 1..Len(fl) : InExtentOf(p, fl[i])}

(* C13 (insert and coalesce): addToFreeList(start, len) on a sorted,
   coalesced free list, the run disjoint from every extent, leaves the list
   sorted and coalesced, covering the pages it covered plus
   [start, start + len); a run that touches the extent before it and the
   extent after it ends in one extent with both; a run below every extent is
   in the head of the list; freeing (0,3) next to [(3, TOTAL_PAGES - 3)]
   gives [(0, TOTAL_PAGES)]. *)
C13_InsertCoalesce ==
  last.op = "addToFreeList" =>
    /\ \A i \in 1..(Len(free_list) - 1) :
          free_list[i].start_page + free_list[i].num_pages
            < free_list[i + 1].start_page
    /\ \A i \in 1..Len(free_list) : free_list[i].num_pages > 0
    /\ Covered(free_list)
         = Covered(last.before)
             \cup (last.start_page..(last.start_page + last.num_pages - 1))
    /\ ((\E i \in 1..Len(last.before) :
            last.before[i].start_page + last.before[i].num_pages
              = last.start_page)
        /\ (\E i \in 1..Len(last.before) :
               last.start_page + last.num_pages = last.before[i].start_page))
         => /\ Len(free_list) = Len(last.before) - 1
            /\ \E i \in 1..Len(free_list) :
                  /\ InExtentOf(last.start_page - 1, free_list[i])
                  /\ InExtentOf(last.start_page + last.num_pages,
                                free_list[i])
    /\ (\A i \in 1..Len(last.before) :
           last.start_page < last.before[i].start_page)
         => free_list[1].start_page = last.start_page
    /\ (last.before = <<FreeBlock(3, TOTAL_PAGES - 3)>>
          /\ last.start_page = 0 /\ last.num_pages = 3)
         => free_list = <<FreeBlock(0, TOTAL_PAGES)>>

(* A run has just filled the hole between two extents, with further extents
   on both sides. *)
C13_Witness ==
  /\ last.op = "addToFreeList"
  /\ \E i \in 2..(Len(last.before) - 2) :
        /\ last.before[i].start_page + last.before[i].num_pages
             = last.start_page
        /\ last.start_page + last.num_pages = last.before[i + 1].start_page
  /\ Len(free_list) = Len(last.before) - 1

(* ------------------------- claims on compaction ------------------------- *)

(* State R is state S0 compacted: the live entries lie back to back from
   page 0 in the address order they had in S0, and what is left is the one
   free extent at the high end, counted by total_free_pages. *)
PackedLayout(S0, R) ==
  /\ \A k \in DOMAIN R.entries :
        R.entries[k].num_pages > 0 =>
          R.entries[k].start_page
            = SumPages(R.entries,
                       {j \in DOMAIN R.entries :
                          R.entries[j].start_page < R.entries[k].start_page})
  /\ \A k \in DOMAIN R.entries :
        R.entries[k].start_page + R.entries[k].num_pages
          <= SumPages(S0.entries, DOMAIN S0.entries)
  /\ \A a \in DOMAIN S0.entries, b \in DOMAIN S0.entries :
        S0.entries[a].start_page < S0.entries[b].start_page =>
          R.entries[a].start_page + R.entries[a].num_pages
            <= R.entries[b].start_page
  /\ Len(R.free_list) <= 1
  /\ R.free_list
       = IF SumPages(S0.entries, DOMAIN S0.entries) < TOTAL_PAGES
         THEN <<FreeBlock(SumPages(S0.entries, DOMAIN S0.entries),
                          TOTAL_PAGES - SumPages(S0.entries, DOMAIN S0.entries))>>
         ELSE <<>>
  /\ R.total_free_pages
       = TOTAL_PAGES - SumPages(S0.entries, DOMAIN S0.entries)

(* C14 (compaction layout): compactMemory from any reachable state leaves the
   live entries in back-to-back runs from page 0 in their former address
   order, at most one free extent, that extent being [S, TOTAL_PAGES) with S
   the sum of num_pages of the live entries, and total_free_pages equal to
   TOTAL_PAGES - S. *)
C14_CompactionLayout ==
  \A order \in SortedOrders(entries) :
     PackedLayout(State, compactMemory(State, order))

(* Compaction from this state moves two entries that hold pages, and free
   pages are left. *)
C14_Witness ==
  /\ Len(free_list) >= 2
  /\ \E order \in SortedOrders(entries) :
        \E a \in DOMAIN entries, b \in DOMAIN entries :
           /\ a # b
           /\ entries[a].num_pages > 0 /\ entries[b].num_pages > 0
           /\ compactMemory(State, order).entries[a].start_page
                # entries[a].start_page
           /\ compactMemory(State, order).entries[b].start_page
                # entries[b].start_page

(* State R differs from S0, in the entry table and the policy index, only in
   the start_page of entries. *)
OnlyStartPages(S0, R) ==
  /\ DOMAIN R.entries = DOMAIN S0.entries
  /\ \A k \in DOMAIN S0.entries :
        /\ R.entries[k].key = S0.entries[k].key
        /\ R.entries[k].client_id = S0.entries[k].client_id
        /\ R.entries[k].num_pages = S0.entries[k].num_pages
        /\ R.entries[k].data_size = S0.entries[k].data_size
        /\ R.entries[k].insertion_order = S0.entries[k].insertion_order
        /\ R.entries[k].visited = S0.entries[k].visited
        /\ R.entries[k].reference_bit = S0.entries[k].reference_bit
        /\ R.entries[k].clock_position = S0.entries[k].clock_position
  /\ R.lru_list = S0.lru_list
  /\ R.fifo_counter = S0.fifo_counter

(* C15 (compaction frame): compactMemory changes only start_page in a live
   entry; key, client_id, num_pages, data_size, insertion_order, visited,
   reference_bit and the entry's place in the LRU list are as before, the
   entry table has the same keys, and the policy index is untouched. *)
C15_CompactionFrame ==
  \A order \in SortedOrders(entries) :
     OnlyStartPages(State, compactMemory(State, order))

(* Compaction from this state moves an entry that is neither the first
   allocated nor the most recently used. *)
C15_Witness ==
  \E order \in SortedOrders(entries) :
     \E k \in DOMAIN entries :
        /\ entries[k].insertion_order > 0
        /\ lru_list[1] # k
        /\ compactMemory(State, order).entries[k].start_page
             # entries[k].start_page

(* The relocation loop of compactMemory about to handle entry i of the sorted
   entries: the state, and the cursor next_free_page. *)
LoopAt(S, entries_to_move, i) ==
  CompactLoop([S EXCEPT !.free_list = <<>>, !.total_free_pages = 0],
              SubSeq(entries_to_move, 1, i - 1), 1, 0)

(* Entry i is moved to the cursor from a higher address, and no page it is
   written to belongs to an entry the loop has yet to handle. *)
MovedDown(S, entries_to_move, i, next_free_page) ==
  S.entries[entries_to_move[i]].start_page # next_free_page =>
    /\ next_free_page < S.entries[entries_to_move[i]].start_page
    /\ \A j \in (i + 1)..Len(entries_to_move) :
          \A p \in next_free_page
                     ..(next_free_page
                          + S.entries[entries_to_move[i]].num_pages - 1) :
             ~InExtentOf(p, S.entries[entries_to_move[j]])

(* C16 (non-destructive relocation): in the compaction that a request the
   free list cannot serve sets off, every entry that is relocated goes to a
   cursor strictly below its old start_page, and the pages written,
   [cursor, cursor + num_pages), hold no page of a live entry that has not
   been relocated yet. *)
C16_RelocateDown ==
  (\E n \in 0..TOTAL_PAGES : Fragmented(n)) =>
    \A order \in SortedOrders(entries) :
       \A i \in 1..Len(order) :
          MovedDown(State, order, i, LoopAt(State, order, i).next_free_page)

(* ------------------------- claims on admission -------------------------- *)

(* The state allocatePages starts from in the step that is being taken: an
   update has freed the key's old pages first. *)
AllocStart ==
  IF last'.op = "update" THEN DropEntry(State, last'.key) ELSE State

(* The state evict starts from: after defragment, when that has run. *)
EvictStart(S, required_pages, defrag_called) ==
  IF defrag_called
  THEN defragment(S, required_pages,
                  CHOOSE o \in SortedOrders(S.entries) : TRUE).st
  ELSE S

(* The state after the first i evictions. *)
RECURSIVE EvictedUpTo(_, _, _)
EvictedUpTo(S, evicted, i) ==
  IF i = 0 THEN S
  ELSE EvictVictim(EvictedUpTo(S, evicted, i - 1), evicted[i])

FreeFlagged(S) == Cardinality({p \in Pages : S.cache[p].is_free})

AdmissionOrder(S, required_pages, path) ==
  /\ path.defrag_called =>
       /\ findBestFitBlock(S, required_pages) = 0
       /\ S.total_free_pages >= required_pages
  /\ path.evict_called =>
       /\ findBestFitBlock(S, required_pages) = 0
       /\ \/ S.total_free_pages < required_pages /\ ~path.defrag_called
          \/ /\ path.defrag_called
             /\ \A o \in SortedOrders(S.entries) :
                   ~defragment(S, required_pages, o).ok
  /\ \A i \in 1..Len(path.evicted) :
        FreeFlagged(EvictedUpTo(EvictStart(S, required_pages,
                                           path.defrag_called),
                                path.evicted, i - 1))
          < required_pages

(* C17 (admission ordering): within one allocatePages call, defragment runs
   only after findBestFitBlock(n) found no block with total_free_pages >= n,
   and evict runs only after findBestFitBlock(n) found no block and either
   total_free_pages < n or defragment returned false; so every entry a
   request for n pages evicts is evicted while fewer than n pages of the
   arena are free. *)
C17_AdmissionOrder ==
  [][(last'.op \in {"add", "update"}
        /\ last'.result \in {"Ok", "OutOfCapacity"})
       => AdmissionOrder(AllocStart, last'.alloc.required_pages,
                         last'.alloc.path)
    ]_vars

(* An allocation has just run defragment, got false, and evicted. *)
C17_Witness ==
  /\ last.op \in {"add", "update"}
  /\ last.alloc.path.defrag_called /\ ~last.alloc.path.defrag_ok
  /\ last.alloc.path.evict_called
  /\ last.alloc.path.evicted # <<>>

(* C18 (live runs own their pages): between cache operations, every page of
   the run of a live entry is flagged used and has the entry's start_page as
   its block_start; the runs of two live entries share no page; and the
   pages flagged free plus the pages of the live entries are TOTAL_PAGES. *)
C18_LiveRuns ==
  /\ \A k \in DOMAIN entries :
        \A i \in entries[k].start_page
                  ..(entries[k].start_page + entries[k].num_pages - 1) :
           /\ i \in Pages
           /\ ~cache[i].is_free
           /\ cache[i].block_start = entries[k].start_page
  /\ \A a \in DOMAIN entries, b \in DOMAIN entries :
        a # b => ~\E i \in Pages : /\ InExtentOf(i, entries[a])
                                   /\ InExtentOf(i, entries[b])
  /\ FreeFlagged(State) + LiveSum = TOTAL_PAGES

(* An allocation that compacted has just put its entry behind a relocated
   one, and a page is still free. *)
C18_Witness ==
  /\ last.op \in {"add", "update"} /\ last.result = "Ok"
  /\ last.alloc.path.defrag_ok
  /\ last.alloc.start_page > 0
  /\ FreeFlagged(State) > 0
  /\ \E k \in DOMAIN entries :
        k # last.key /\ entries[k].num_pages > 0 /\ entries[k].start_page = 0

(* Every live entry has the least number of pages that hold its bytes. *)
EntryPagesExact ==
  \A k \in DOMAIN entries :
     /\ entries[k].data_size <= entries[k].num_pages * PAGE_SIZE
     /\ entries[k].num_pages > 0 =>
          (entries[k].num_pages - 1) * PAGE_SIZE < entries[k].data_size

(* C19 (entry size bounds): every entry allocatePages commits, for any
   data_size, 0 included, has num_pages >= 1, num_pages equal to data_size /
   PAGE_SIZE rounded up, and data_size <= num_pages * PAGE_SIZE; so has every
   live entry in every reachable state. *)
C19_EntrySizes ==
  /\ EntryPagesExact
  /\ \A k \in DOMAIN entries : entries[k].num_pages >= 1
  /\ (last.op \in {"add", "update"} /\ last.alloc.ok)
       => last.alloc.required_pages >= 1

OverflowScript == \E o \in OverflowScripts : script.ops = o

(* What evict(required_pages), started in S0, did: E is its result. *)
EvictContract(S0, required_pages, E) ==
  /\ E.ok => E.st.total_free_pages >= required_pages
  /\ ~E.ok => E.st.entries = <<>> /\ E.st.lru_list = <<>>
  /\ Len(E.evicted) <= Cardinality(DOMAIN S0.entries)
  /\ \A i \in 1..Len(E.evicted), j \in 1..Len(E.evicted) :
        i # j => E.evicted[i] # E.evicted[j]
  /\ DOMAIN E.st.entries
       = (DOMAIN S0.entries) \ {E.evicted[i] : i \in 1..Len(E.evicted)}
  /\ E.st.lru_list
       = SelectSeq(S0.lru_list, LAMBDA k : k \in DOMAIN E.st.entries)
  /\ \A i \in 1..Len(E.evicted) :
        /\ E.evicted[i] \in DOMAIN S0.entries
        /\ \A p \in Pages :
              InExtentOf(p, S0.entries[E.evicted[i]]) => E.st.cache[p].is_free
        /\ EvictedUpTo(S0, E.evicted, i - 1).total_free_pages < required_pages
  /\ E.st = EvictedUpTo(S0, E.evicted, Len(E.evicted))

(* C20 (evict contract): evict(required) removes live entries one at a time,
   freeing their pages and dropping them from the entry table and the
   policy index; it returns true only with total_free_pages >= required,
   false only when no live entry remains, and it ends after at most as many
   evictions as there are live entries. *)
C20_EvictContract ==
  /\ \A required_pages \in 0..(2 * TOTAL_PAGES) :
        EvictContract(State, required_pages, evict(State, required_pages))
  /\ {lru_list[i] : i \in 1..Len(lru_list)} = DOMAIN entries
  /\ (last.alloc.path.evict_called /\ ~last.alloc.path.evict_ok)
       => entries = <<>> /\ last.result = "OutOfCapacity"

(* evict has just removed both live entries and reported failure. *)
C20_Witness ==
  /\ OverflowScript /\ script.step = 3
  /\ last.alloc.path.evict_called /\ ~last.alloc.path.evict_ok
  /\ Len(last.alloc.path.evicted) = 2
  /\ entries = <<>>

(* C21 (defragmentation suffices when invoked): whenever allocatePages has
   invoked defragment(n), with no free extent of n pages and
   total_free_pages >= n, defragment returned true, the retried
   findBestFitBlock(n) found an extent, and the allocation committed
   without evicting an entry. *)
C21_DefragSuffices ==
  (last.op \in {"add", "update"} /\ last.alloc.path.defrag_called) =>
    /\ last.alloc.path.defrag_ok
    /\ last.alloc.ok /\ last.result = "Ok"
    /\ ~last.alloc.path.evict_called
    /\ last.alloc.path.evicted = <<>>

(* defragment returns false only when it was invoked on a counter that
   exceeded the pages that really were free. *)
DefragFailsOnOvercount ==
  [][(last'.op \in {"add", "update"}
        /\ last'.alloc.path.defrag_called /\ ~last'.alloc.path.defrag_ok)
       => /\ AllocStart.total_free_pages > FreeFlagged(AllocStart)
          /\ FreeFlagged(AllocStart) < last'.alloc.required_pages
    ]_vars

(* The state the step that is being taken ends in. *)
StateNext ==
  [cache |-> cache', entries |-> entries', free_list |-> free_list',
   total_free_pages |-> total_free_pages', lru_list |-> lru_list',
   fifo_counter |-> fifo_counter']

(* C22 (failed allocation keeps the live set): whenever allocatePages returns
   false, also for a request of more than TOTAL_PAGES pages, the live keys
   and the value stored for each of them are what they were before the
   call, and there is no entry for the requested key. *)
C22_FailedAllocKeeps ==
  [][(last'.op \in {"add", "update"} /\ last'.result = "OutOfCapacity") =>
       /\ ~last'.alloc.ok
       /\ last'.key \notin DOMAIN entries'
       /\ DOMAIN entries' = DOMAIN AllocStart.entries
       /\ \A k \in DOMAIN entries' :
             ValueAt(StateNext, k) = ValueAt(AllocStart, k)
    ]_vars

(* What a failed allocation does keep: no entry for the requested key, and
   every key that is still live has the value it had; the keys that are gone
   are the ones evict removed. *)
FailedAllocLosesVictims ==
  [][(last'.op \in {"add", "update"} /\ last'.result = "OutOfCapacity") =>
       /\ last'.key \notin DOMAIN entries'
       /\ DOMAIN entries'
            = (DOMAIN AllocStart.entries)
                \ {last'.alloc.path.evicted[i] :
                     i \in 1..Len(last'.alloc.path.evicted)}
       /\ \A k \in DOMAIN entries' :
             ValueAt(StateNext, k) = ValueAt(AllocStart, k)
    ]_vars

=============================================================================
